---- MODULE Spec2Model ----
(***************************************************************************)
(* State-machine model of spotify-to-gpm.py: the command-line block, the   *)
(* extraction of the track listing from the Spotify page, the plain dump   *)
(* and the publication to Google Play Music.                               *)
(*                                                                         *)
(* Text is modelled as a sequence of tokens; every token stands for a      *)
(* fixed run of characters whose length is TokLen.  A Python dict is a     *)
(* function, a missing key is a key outside its DOMAIN.                    *)
(***************************************************************************)
EXTENDS Integers, Sequences, FiniteSets, TLC

\* ------------------------------------------------------------------ bounds
MaxPieces == 6
MaxTracks == 2

\* ------------------------------------------------------------------ text
NoneVal == "None"

OPEN == "<script>"
CLOSE == "</script>"
NL == "\n"
ASSIGN == " = "
LIT == "{blob}"

\* number of characters a token stands for (len() of the Python string)
TokLen(t) ==
  CASE t = OPEN -> 8
    [] t = CLOSE -> 9
    [] t = ASSIGN -> 3
    [] t = LIT -> 6
    [] t = "{blob" -> 5
    [] t = "<script" -> 7
    [] t = "</script" -> 8
    [] t = " =" -> 2
    [] OTHER -> 1

RECURSIVE StrLen(_)
StrLen(s) == IF s = <<>> THEN 0 ELSE TokLen(Head(s)) + StrLen(Tail(s))

\* index of the first occurrence of token t in s at or after position i, 0 if none
RECURSIVE IndexFrom(_, _, _)
IndexFrom(s, t, i) ==
  IF i > Len(s) THEN 0
  ELSE IF s[i] = t THEN i
  ELSE IndexFrom(s, t, i + 1)

\* re.findall(r'<script>(.*?)<\/script>', html_str, re.MULTILINE | re.DOTALL)
RECURSIVE FindAllFrom(_, _)
FindAllFrom(html_str, i) ==
  LET o == IndexFrom(html_str, OPEN, i)
      c == IF o = 0 THEN 0 ELSE IndexFrom(html_str, CLOSE, o + 1)
  IN IF o = 0 \/ c = 0 THEN <<>>
     ELSE <<SubSeq(html_str, o + 1, c - 1)>> \o FindAllFrom(html_str, c + 1)

FindAll(html_str) == FindAllFrom(html_str, 1)

\* the comparison that lets a later candidate replace the current best
LongerLast(cand, best) == StrLen(cand) >= StrLen(best)

Longer(cand, best) == StrLen(cand) > StrLen(best)

\* max(matches, key=len): the first element is the best so far, a later one
\* replaces it only when strictly longer
RECURSIVE MaxFold(_, _)
MaxFold(best, rest) ==
  IF rest = <<>> THEN best
  ELSE MaxFold(IF Longer(Head(rest), best) THEN Head(rest) ELSE best, Tail(rest))

MaxByLen(matches) == MaxFold(Head(matches), Tail(matches))

\* str.split(sep) for a one-token separator
RECURSIVE SplitFrom(_, _, _)
SplitFrom(s, sep, i) ==
  LET j == IndexFrom(s, sep, i)
  IN IF j = 0 THEN <<SubSeq(s, i, Len(s))>>
     ELSE <<SubSeq(s, i, j - 1)>> \o SplitFrom(s, sep, j + 1)

Split(s, sep) == SplitFrom(s, sep, 1)

\* sep.join(parts)
RECURSIVE Join(_, _)
Join(sep, parts) ==
  IF parts = <<>> THEN <<>>
  ELSE IF Len(parts) = 1 THEN parts[1]
  ELSE parts[1] \o <<sep>> \o Join(sep, Tail(parts))

\* the loop of get_dict_from_script_seq: longest_line starts as "" and is
\* replaced by a line only when that line is strictly longer
RECURSIVE LongestLineFold(_, _)
LongestLineFold(longest, lines) ==
  IF lines = <<>> THEN longest
  ELSE LongestLineFold(IF Longer(Head(lines), longest) THEN Head(lines) ELSE longest,
                       Tail(lines))

LongestLine(script_tag_contents) == LongestLineFold(<<>>, Split(script_tag_contents, NL))

\* the token left when the last character of a multi-character token is cut
Truncated(t) ==
  CASE t = LIT -> "{blob"
    [] t = OPEN -> "<script"
    [] t = CLOSE -> "</script"
    [] t = ASSIGN -> " ="
    [] OTHER -> t

\* s[:-1]
DropLastChar(s) ==
  IF s = <<>> THEN <<>>
  ELSE IF TokLen(s[Len(s)]) = 1 THEN SubSeq(s, 1, Len(s) - 1)
  ELSE SubSeq(s, 1, Len(s) - 1) \o <<Truncated(s[Len(s)])>>

\* longest_line.split(' = '); ' = '.join(longest_line[1:]); [:-1]
AfterAssignment(line) == DropLastChar(Join(ASSIGN, Tail(Split(line, ASSIGN))))

\* ------------------------------------------------------------------ inputs
\* the statement the page embeds: <identifier> = <literal>;
STMT == <<"v", ASSIGN, LIT, ";">>

Pieces == {<<OPEN>>, <<CLOSE>>, <<NL>>, <<"c">>, <<";">>, STMT}

RECURSIVE DocsOf(_)
DocsOf(n) ==
  IF n = 0 THEN {<<>>}
  ELSE LET prev == DocsOf(n - 1)
       IN prev \cup {d \o p : d \in prev, p \in Pieces}

\* every page of at most MaxPieces pieces
ScanDocs == DocsOf(MaxPieces)

\* pages every run may find at its source
RunDocs ==
  { <<OPEN>> \o STMT \o <<CLOSE>>,
    <<OPEN, "c", CLOSE, OPEN, "c", NL>> \o STMT \o <<NL, CLOSE>>,
    <<OPEN, "v", ASSIGN, LIT, CLOSE>>,
    <<"c", NL, "c">> }

Item1 == [track |-> [name |-> "A", album |-> [name |-> "B"],
                     artists |-> <<[name |-> "C"]>>]]

Item2 == [track |-> [name |-> "D", album |-> [name |-> "E"],
                     artists |-> <<[name |-> "F"], [name |-> "G"]>>]]

ItemNoAlbum == [track |-> [name |-> "H", artists |-> <<[name |-> "C"]>>]]

ItemPool == {Item1, Item2, ItemNoAlbum}

RECURSIVE SeqsUpTo(_, _)
SeqsUpTo(S, n) ==
  IF n = 0 THEN {<<>>}
  ELSE LET prev == SeqsUpTo(S, n - 1)
       IN prev \cup {Append(q, x) : q \in prev, x \in S}

EmptyDict == [k \in {} |-> NoneVal]

\* the object the literal denotes; d and e say which metadata keys it carries
MkBlob(its, d, e) ==
  [tracks |-> [items |-> its]]
    @@ (IF d = "absent" THEN EmptyDict ELSE [description |-> d])
    @@ (CASE e = "absent" -> EmptyDict
          [] e = "nokey" -> [external_urls |-> EmptyDict]
          [] OTHER -> [external_urls |-> [spotify |-> e]])

Blobs == {MkBlob(its, d, e) : its \in SeqsUpTo(ItemPool, MaxTracks),
                              d \in {"absent", "", "d"},
                              e \in {"absent", "nokey", "u"}}

WellFormedBlob == MkBlob(<<Item1, Item2>>, "d", "u")

Args == [spotify_mode : {"url", "file", "dir"},
         spotify_songs_plain : BOOLEAN,
         gmusic_username : {NoneVal, "", "user"},
         gmusic_password : {NoneVal, "pass"},
         new_playlist_name : {NoneVal, "mix"}]

PlainArgs == [spotify_mode |-> "file", spotify_songs_plain |-> TRUE,
              gmusic_username |-> NoneVal, gmusic_password |-> NoneVal,
              new_playlist_name |-> NoneVal]

StoreIds == {"s1", "s2"}

\* Python truthiness of an optional string
Truthy(x) == x /= NoneVal /\ x /= ""

\* ------------------------------------------------------------------ state
VARIABLES
  a,                 \* the parsed command line (argparse namespace)
  LOGbound,          \* whether the global name LOG is bound in the module
  doc,               \* the text found at the source
  blob,              \* the object the literal embedded in that text denotes
  pc,                \* position of the single thread of control
  main_args,         \* the parameters main() was called with
  spotify_raw, matches, script_seq, longest_line, dict_seq, raw,
  spotify_playlist, metadata,
  gmusic,            \* TRUE once gmusic_login returned a session
  song_id_list, new_playlist_id,
  next_track,        \* position of the loop of line 127 in spotify_playlist
  calls,             \* calls made on the Mobileclient, in order, with results
  stdout,            \* lines printed
  log,               \* records passed to LOG, <<level, source line>>
  exit_code, exc, excLine

inputs == <<a, LOGbound>>
extracted == <<spotify_raw, matches, script_seq, longest_line, dict_seq, raw,
               spotify_playlist, metadata>>
published == <<gmusic, song_id_list, new_playlist_id, next_track, calls>>
vars == <<inputs, doc, blob, pc, main_args, extracted, published, stdout, log,
          exit_code, exc, excLine>>

NoMainArgs == [spotify_type |-> 0, g_user |-> NoneVal, g_pass |-> NoneVal,
               new_playlist_name |-> NoneVal, only_spotify |-> FALSE]

InitProgram ==
  /\ pc = "start"
  /\ doc = <<>> /\ blob = EmptyDict
  /\ main_args = NoMainArgs
  /\ spotify_raw = <<>> /\ matches = <<>> /\ script_seq = <<>>
  /\ longest_line = <<>> /\ dict_seq = <<>> /\ raw = EmptyDict
  /\ spotify_playlist = <<>> /\ metadata = <<>>
  /\ gmusic = FALSE /\ song_id_list = <<>> /\ new_playlist_id = NoneVal
  /\ next_track = 1
  /\ calls = <<>> /\ stdout = <<>> /\ log = <<>>
  /\ exit_code = -1 /\ exc = "" /\ excLine = 0

PublishArgs == [spotify_mode |-> "url", spotify_songs_plain |-> FALSE,
                gmusic_username |-> "user", gmusic_password |-> "pass",
                new_playlist_name |-> "mix"]

\* any command line, with LOG bound by the host or not
Init ==
  /\ InitProgram
  /\ a \in Args
  /\ LOGbound \in BOOLEAN

\* a publication, a publication without a playlist name, and a plain dump
InitFew ==
  /\ InitProgram
  /\ a \in {PublishArgs, [PublishArgs EXCEPT !.new_playlist_name = NoneVal],
            [PublishArgs EXCEPT !.spotify_songs_plain = TRUE]}
  /\ LOGbound \in BOOLEAN

\* an uncaught exception or sys.exit(1): the process ends with status 1
Fail(kind, line) ==
  /\ pc' = "exit"
  /\ exc' = kind
  /\ excLine' = line
  /\ exit_code' = 1

Continue(next) ==
  /\ pc' = next
  /\ UNCHANGED <<exit_code, exc, excLine>>

\* ------------------------------------------------------------------ command line
\* line 172 without the test of the playlist name
MissingLogin(args) ==
  \/ ~Truthy(args.gmusic_username)
  \/ ~Truthy(args.gmusic_password)

\* line 172: not a.gmusic_username or not a.gmusic_password or not a.new_playlist_name
MissingCredentials(args) ==
  \/ ~Truthy(args.gmusic_username)
  \/ ~Truthy(args.gmusic_password)
  \/ ~Truthy(args.new_playlist_name)

\* the __main__ block: print the namespace, check the parameter combination,
\* call main()
CheckArgs ==
  /\ pc = "start"
  /\ stdout' = Append(stdout, <<"Namespace">>)
  /\ IF a.spotify_mode \notin {"url", "file"}
     THEN /\ IF LOGbound
             THEN Fail("SystemExit", 166) /\ log' = Append(log, <<"ERROR", 165>>)
             ELSE Fail("NameError", 165) /\ UNCHANGED log
          /\ UNCHANGED main_args
     ELSE IF a.spotify_songs_plain
     THEN /\ main_args' = [spotify_type |-> IF a.spotify_mode = "file" THEN 1 ELSE 0,
                           g_user |-> NoneVal, g_pass |-> NoneVal,
                           new_playlist_name |-> NoneVal, only_spotify |-> TRUE]
          /\ Continue("read")
          /\ UNCHANGED log
     ELSE IF MissingCredentials(a)
     THEN /\ IF LOGbound
             THEN Fail("SystemExit", 174) /\ log' = Append(log, <<"ERROR", 173>>)
             ELSE Fail("NameError", 173) /\ UNCHANGED log
          /\ UNCHANGED main_args
     ELSE /\ main_args' = [spotify_type |-> IF a.spotify_mode = "file" THEN 1 ELSE 0,
                           g_user |-> a.gmusic_username,
                           g_pass |-> a.gmusic_password,
                           new_playlist_name |-> a.new_playlist_name,
                           only_spotify |-> FALSE]
          /\ Continue("read")
          /\ UNCHANGED log
  /\ UNCHANGED <<inputs, doc, blob, extracted, published>>

\* ------------------------------------------------------------------ extraction
\* main(): open(spotify_source).read() or requests.get(spotify_source).text.
\* The source is unreadable, or holds one of the run pages, or - for the plain
\* dump of PlainArgs - any page of at most MaxPieces pieces.
ReadSource ==
  /\ pc = "read"
  /\ \/ /\ Fail(IF main_args.spotify_type = 1 THEN "IOError" ELSE "ConnectionError",
                 IF main_args.spotify_type = 1 THEN 82 ELSE 85)
        /\ UNCHANGED <<spotify_raw, doc, blob>>
     \/ /\ doc' \in RunDocs
        /\ blob' \in Blobs
        /\ spotify_raw' = doc'
        /\ Continue("script")
     \/ /\ a = PlainArgs
        /\ LOGbound
        /\ doc' \in ScanDocs
        /\ blob' = WellFormedBlob
        /\ spotify_raw' = doc'
        /\ Continue("script")
  /\ UNCHANGED <<inputs, main_args, matches, script_seq, longest_line, dict_seq, raw,
                 spotify_playlist, metadata, published, stdout, log>>

GetLongestScriptSeq ==
  /\ pc = "script"
  /\ IF ~LOGbound
     THEN Fail("NameError", 28) /\ UNCHANGED <<log, matches, script_seq>>
     ELSE LET found == FindAll(spotify_raw)
          IN /\ log' = Append(log, <<"DEBUG", 28>>)
             /\ matches' = found
             /\ IF found = <<>>
                THEN Fail("ValueError", 30) /\ UNCHANGED script_seq
                ELSE script_seq' = MaxByLen(found) /\ Continue("dict")
  /\ UNCHANGED <<inputs, doc, blob, main_args, spotify_raw, longest_line, dict_seq, raw,
                 spotify_playlist, metadata, published, stdout>>

GetDictFromScriptSeq ==
  /\ pc = "dict"
  /\ IF ~LOGbound
     THEN Fail("NameError", 34) /\ UNCHANGED <<log, longest_line, dict_seq>>
     ELSE LET line == LongestLine(script_seq)
          IN /\ log' = Append(log, <<"DEBUG", 34>>)
             /\ longest_line' = line
             /\ dict_seq' = AfterAssignment(line)
             /\ Continue("decode")
  /\ UNCHANGED <<inputs, doc, blob, main_args, spotify_raw, matches, script_seq, raw,
                 spotify_playlist, metadata, published, stdout>>

\* demjson.decode: the text parses only when it is exactly the literal
Decodes(text) == text = <<LIT>>

Decode ==
  /\ pc = "decode"
  /\ IF Decodes(dict_seq)
     THEN raw' = blob /\ Continue("tracks")
     ELSE Fail("JSONDecodeError", 93) /\ UNCHANGED raw
  /\ UNCHANGED <<inputs, doc, blob, main_args, spotify_raw, matches, script_seq, longest_line,
                 dict_seq, spotify_playlist, metadata, published, stdout, log>>

\* the keys lines 97-101 read from an item
ItemOK(item) ==
  /\ "track" \in DOMAIN item
  /\ {"name", "album", "artists"} \subseteq DOMAIN item.track
  /\ "name" \in DOMAIN item.track.album
  /\ \A i \in DOMAIN item.track.artists : "name" \in DOMAIN item.track.artists[i]

ArtistNames(item) ==
  [i \in DOMAIN item.track.artists |-> <<item.track.artists[i].name>>]

\* (track_name, ', '.join(artists), album_name)
TrackOf(item) ==
  << <<item.track.name>>, Join(", ", ArtistNames(item)), <<item.track.album.name>> >>

\* a list that grows at the front
AddTrackFirst(playlist, track) == <<track>> \o playlist

\* spotify_playlist.append(...)
AddTrack(playlist, track) == Append(playlist, track)

\* the loop of lines 96-103: one append per item, in turn
RECURSIVE BuildPlaylist(_, _)
BuildPlaylist(acc, items) ==
  IF items = <<>> THEN acc
  ELSE BuildPlaylist(AddTrack(acc, TrackOf(Head(items))), Tail(items))

ExtractTracks ==
  /\ pc = "tracks"
  /\ IF \A i \in DOMAIN raw.tracks.items : ItemOK(raw.tracks.items[i])
     THEN /\ spotify_playlist' = BuildPlaylist(<<>>, raw.tracks.items)
          /\ Continue("metadata")
     ELSE Fail("KeyError", 98) /\ UNCHANGED spotify_playlist
  /\ UNCHANGED <<inputs, doc, blob, main_args, spotify_raw, matches, script_seq, longest_line,
                 dict_seq, raw, metadata, published, stdout, log>>

\* lines 105-108, then the branch of line 115
ExtractMetadata ==
  /\ pc = "metadata"
  /\ IF "description" \notin DOMAIN raw
     THEN Fail("KeyError", 107) /\ UNCHANGED metadata
     ELSE IF "external_urls" \notin DOMAIN raw \/ "spotify" \notin DOMAIN raw.external_urls
     THEN Fail("KeyError", 108) /\ UNCHANGED metadata
     ELSE /\ metadata' = <<raw.description, raw.external_urls.spotify>>
          /\ Continue(IF main_args.only_spotify THEN "print" ELSE "login")
  /\ UNCHANGED <<inputs, doc, blob, main_args, spotify_raw, matches, script_seq, longest_line,
                 dict_seq, raw, spotify_playlist, published, stdout, log>>

\* "{} | {} | {}".format(track[0], track[1], track[2])
Row(track) == track[1] \o <<" | ">> \o track[2] \o <<" | ">> \o track[3]

RECURSIVE Rows(_)
Rows(tracks) ==
  IF tracks = <<>> THEN <<>> ELSE <<Row(Head(tracks))>> \o Rows(Tail(tracks))

PrintPlain ==
  /\ pc = "print"
  /\ stdout' = stdout \o <<<<"TRACK | ARTIST | ALBUM">>>> \o Rows(spotify_playlist)
  /\ pc' = "done"
  /\ exit_code' = 0
  /\ UNCHANGED <<inputs, doc, blob, main_args, extracted, published, log, exc, excLine>>

\* ------------------------------------------------------------------ publication
\* a loop that stops one track early
ExhaustedEarly(position, playlist) == position >= Len(playlist)

\* the for loop of line 127 ends when the playlist is exhausted
Exhausted(position, playlist) == position > Len(playlist)

\* a login whose result is never tested
RejectedNever(logged_in) == FALSE

\* line 50: if not logged_in
Rejected(logged_in) == ~logged_in

\* lines 120-124 and gmusic_login: the parameter check, then one login call
Login ==
  /\ pc = "login"
  /\ IF \/ main_args.g_user = NoneVal
        \/ main_args.g_pass = NoneVal
        \/ main_args.new_playlist_name = NoneVal
     THEN /\ IF LOGbound
             THEN Fail("SystemExit", 122) /\ log' = Append(log, <<"ERROR", 121>>)
             ELSE Fail("NameError", 121) /\ UNCHANGED log
          /\ UNCHANGED <<gmusic, calls>>
     ELSE \E logged_in \in BOOLEAN :
          /\ calls' = Append(calls, [op |-> "login",
                                     arg |-> <<main_args.g_user, main_args.g_pass>>,
                                     ret |-> logged_in])
          /\ IF Rejected(logged_in)
             THEN /\ IF LOGbound
                     THEN Fail("SystemExit", 52) /\ log' = Append(log, <<"ERROR", 51>>)
                     ELSE Fail("NameError", 51) /\ UNCHANGED log
                  /\ UNCHANGED gmusic
             ELSE IF LOGbound
             THEN /\ log' = Append(log, <<"INFO", 54>>)
                  /\ gmusic' = TRUE
                  /\ Continue(IF Exhausted(next_track, spotify_playlist)
                              THEN "create" ELSE "search")
             ELSE Fail("NameError", 54) /\ UNCHANGED <<log, gmusic>>
  /\ UNCHANGED <<inputs, doc, blob, main_args, extracted, song_id_list, new_playlist_id,
                 next_track, stdout>>

\* "{} {}".format(track[0], track[1])
SearchString(track) == track[1] \o <<" ">> \o track[2]

\* what the loop of lines 127-130 appends for a search result: the storeId of
\* the first hit, or the None gmusic_search returns after the IndexError
AppendedMatched(song_hits) ==
  IF song_hits = <<>> THEN <<>> ELSE <<song_hits[1]>>

Appended(song_hits) ==
  IF song_hits = <<>> THEN <<NoneVal>> ELSE <<song_hits[1]>>

\* one iteration of the loop of lines 127-130, gmusic_search included
Search ==
  /\ pc = "search"
  /\ ~Exhausted(next_track, spotify_playlist)
  /\ LET track == spotify_playlist[next_track]
     IN IF ~LOGbound
        THEN Fail("NameError", 128) /\ UNCHANGED <<log, calls, song_id_list, next_track>>
        ELSE \E song_hits \in {<<>>} \cup {<<s>> : s \in StoreIds} :
             /\ calls' = Append(calls, [op |-> "search",
                                        arg |-> SearchString(track),
                                        ret |-> song_hits])
             /\ log' = IF song_hits = <<>>
                       THEN log \o << <<"DEBUG", 128>>, <<"WARNING", 63>> >>
                       ELSE Append(log, <<"DEBUG", 128>>)
             /\ song_id_list' = song_id_list \o Appended(song_hits)
             /\ next_track' = next_track + 1
             /\ Continue(IF Exhausted(next_track + 1, spotify_playlist)
                         THEN "create" ELSE "search")
  /\ UNCHANGED <<inputs, doc, blob, main_args, extracted, gmusic, new_playlist_id, stdout>>

\* the description gmusic_create_new_playlist builds
Description(spotify_external_url, spotify_description) ==
  <<"Auto-generated by __main__.">>
    \o (IF Truthy(spotify_external_url)
        THEN <<"\nOriginal Spotify URL: ", spotify_external_url>> ELSE <<>>)
    \o (IF Truthy(spotify_description)
        THEN <<"\nOriginal Spotify description: ", spotify_description>> ELSE <<>>)

\* lines 132-133 and gmusic_create_new_playlist
CreatePlaylist ==
  /\ pc = "create"
  /\ IF ~LOGbound
     THEN Fail("NameError", 132) /\ UNCHANGED <<log, calls, new_playlist_id>>
     ELSE /\ log' = Append(log, <<"DEBUG", 132>>)
          /\ calls' = Append(calls, [op |-> "create_playlist",
                                     arg |-> <<main_args.new_playlist_name,
                                               Description(metadata[2], metadata[1])>>,
                                     ret |-> "playlist1"])
          /\ new_playlist_id' = "playlist1"
          /\ Continue("add")
  /\ UNCHANGED <<inputs, doc, blob, main_args, extracted, gmusic, song_id_list, next_track,
                 stdout>>

\* lines 134-137 and gmusic_add_to_playlist
AddToPlaylist ==
  /\ pc = "add"
  /\ IF ~LOGbound
     THEN Fail("NameError", 134) /\ UNCHANGED <<log, calls>>
     ELSE /\ log' = log \o << <<"DEBUG", 134>>, <<"INFO", 137>> >>
          /\ calls' = Append(calls, [op |-> "add_songs_to_playlist",
                                     arg |-> <<new_playlist_id, song_id_list>>,
                                     ret |-> TRUE])
          /\ pc' = "done"
          /\ exit_code' = 0
          /\ UNCHANGED <<exc, excLine>>
  /\ UNCHANGED <<inputs, doc, blob, main_args, extracted, gmusic, song_id_list, new_playlist_id,
                 next_track, stdout>>

\* ------------------------------------------------------------------ specification
Next ==
  \/ CheckArgs
  \/ ReadSource
  \/ GetLongestScriptSeq
  \/ GetDictFromScriptSeq
  \/ Decode
  \/ ExtractTracks
  \/ ExtractMetadata
  \/ PrintPlain
  \/ Login
  \/ Search
  \/ CreatePlaylist
  \/ AddToPlaylist

Spec == Init /\ [][Next]_vars

\* the statements of the publication
Publish == Login \/ Search \/ CreatePlaylist \/ AddToPlaylist

\* the single thread runs each statement of the publication in turn, and every
\* call on the service returns
FairSpec == InitFew /\ [][Next]_vars /\ WF_vars(Publish)

\* ------------------------------------------------------------------ properties
SearchCalls == SelectSeq(calls, LAMBDA c : c.op = "search")

Issued(op) == \E i \in DOMAIN calls : calls[i].op = op

HasMiss == \E k \in DOMAIN SearchCalls : SearchCalls[k].ret = <<>>

AllPublished ==
  /\ Len(SearchCalls) = Len(spotify_playlist)
  /\ Issued("create_playlist")
  /\ Issued("add_songs_to_playlist")

MissRecorded ==
  \A k \in DOMAIN SearchCalls :
    SearchCalls[k].ret = <<>> =>
      k <= Len(song_id_list) /\ song_id_list[k] = NoneVal

\* C1: in a publish run a track whose search returns zero hits does not stop
\* the run: after a miss the run goes on to its end, where every track has been
\* searched, the playlist creation and the batch add have been issued, and the
\* missed track is recorded with an absent id (None).
C1_MissDoesNotStopRun ==
  HasMiss ~> (pc = "done" /\ AllPublished /\ MissRecorded)

C1_Witness ==
  /\ pc = "done"
  /\ Len(SearchCalls) = 2
  /\ SearchCalls[1].ret = <<>>
  /\ SearchCalls[2].ret /= <<>>
  /\ song_id_list[1] = NoneVal
  /\ Issued("add_songs_to_playlist")

\* the ids the searches returned, in the order of the searches
RECURSIVE MatchedIds(_)
MatchedIds(cs) ==
  IF cs = <<>> THEN <<>>
  ELSE (IF Head(cs).op = "search" /\ Head(cs).ret /= <<>>
        THEN <<Head(cs).ret[1]>> ELSE <<>>) \o MatchedIds(Tail(cs))

\* C2: the id sequence passed to the single batch add call holds exactly the
\* ids of the tracks whose search matched, in source order, and no absent
\* entry for a track whose search missed.
C2_BatchHoldsOnlyMatchedIds ==
  \A i \in DOMAIN calls :
    calls[i].op = "add_songs_to_playlist" => calls[i].arg[2] = MatchedIds(calls)

\* C3: when the service rejects the credentials the run ends with a nonzero
\* exit after exactly one authentication attempt, and no search, playlist
\* creation or add call is issued.
C3_RejectedLoginEndsRun ==
  \A i \in DOMAIN calls :
    (calls[i].op = "login" /\ calls[i].ret = FALSE) =>
      /\ Len(calls) = 1
      /\ pc = "exit"
      /\ exit_code = 1

C3_Witness ==
  /\ calls /= <<>>
  /\ calls[1].op = "login"
  /\ calls[1].ret = FALSE
  /\ pc = "exit"
  /\ exc = "SystemExit"

CredentialMissing ==
  \/ a.gmusic_username \in {NoneVal, ""}
  \/ a.gmusic_password \in {NoneVal, ""}
  \/ a.new_playlist_name \in {NoneVal, ""}

C5_PlainOnlyPrintsTracks ==
  a.spotify_songs_plain =>
    /\ calls = <<>>
    /\ pc = "done" =>
         stdout = << <<"TRACK | ARTIST | ALBUM">> >>
                    \o [i \in DOMAIN spotify_playlist |->
                          spotify_playlist[i][1] \o <<" | ">>
                            \o spotify_playlist[i][2] \o <<" | ">>
                            \o spotify_playlist[i][3]]

NoScriptBlock ==
  ~ \E i, j \in DOMAIN doc : i < j /\ doc[i] = OPEN /\ doc[j] = CLOSE

\* C6: extraction on a page without any script block fails with an
\* ExtractionError and yields no tracks: none is produced, printed or passed
\* to the publisher.
C6_NoScriptBlockIsExtractionError ==
  NoScriptBlock =>
    /\ pc \in {"start", "read", "script", "exit"}
    /\ spotify_playlist = <<>>
    /\ Len(stdout) <= 1
    /\ calls = <<>>
    /\ (pc = "exit" /\ excLine = 30) => exc = "ExtractionError"

LacksMetadata ==
  \/ "description" \notin DOMAIN blob
  \/ "external_urls" \notin DOMAIN blob
  \/ "spotify" \notin DOMAIN blob.external_urls

MetadataStepRan ==
  \/ pc \in {"print", "login", "search", "create", "add", "done"}
  \/ pc = "exit" /\ excLine \in {107, 108, 121, 122, 51, 52, 54, 128, 132, 134}

\* C7: when the parsed object lacks description or external_urls.spotify,
\* extraction still succeeds: the missing value becomes the empty string and
\* the track sequence is returned unchanged.
C7_MissingMetadataTolerated ==
  (LacksMetadata /\ MetadataStepRan) =>
    /\ excLine \notin {107, 108}
    /\ metadata = << IF "description" \in DOMAIN blob THEN blob.description ELSE "",
                     IF "external_urls" \in DOMAIN blob
                        /\ "spotify" \in DOMAIN blob.external_urls
                     THEN blob.external_urls.spotify ELSE "" >>

\* the least index of an element of greatest length
FirstLongest(seq) ==
  CHOOSE i \in DOMAIN seq :
    /\ \A j \in DOMAIN seq : StrLen(seq[j]) <= StrLen(seq[i])
    /\ \A j \in 1..(i - 1) : StrLen(seq[j]) < StrLen(seq[i])

LineSelected ==
  \/ pc \in {"decode", "tracks", "metadata", "print", "login", "search", "create",
             "add", "done"}
  \/ pc = "exit" /\ excLine \in {93, 98, 107, 108, 121, 122, 51, 52, 54, 128, 132, 134}

\* C8: of a non-empty sequence of script blocks the one selected is of greatest
\* character length and, among those of greatest length, the first in document
\* order; the line selected within it is the first line of greatest length.
C8_FirstLongestSelected ==
  /\ matches /= <<>> => script_seq = matches[FirstLongest(matches)]
  /\ LineSelected =>
       longest_line = Split(script_seq, NL)[FirstLongest(Split(script_seq, NL))]

C8_Witness ==
  /\ pc = "dict"
  /\ \E i, j \in DOMAIN matches :
       /\ i < j
       /\ matches[i] /= matches[j]
       /\ StrLen(matches[i]) = StrLen(matches[j])
       /\ \A k \in DOMAIN matches : StrLen(matches[k]) <= StrLen(matches[i])
       /\ script_seq = matches[i]

TracksExtracted ==
  \/ pc \in {"metadata", "print", "login", "search", "create", "add", "done"}
  \/ pc = "exit" /\ excLine \in {107, 108, 121, 122, 51, 52, 54, 128, 132, 134}

\* C9: for a parsed playlist with well-formed items, extraction returns one
\* record per item in the order of the items: the i-th record carries the i-th
\* item's track name, album name and artist names in their source order.
C9_OneRecordPerItemInOrder ==
  TracksExtracted =>
    /\ Len(spotify_playlist) = Len(raw.tracks.items)
    /\ \A i \in DOMAIN spotify_playlist :
         LET t == raw.tracks.items[i].track
             r == spotify_playlist[i]
         IN /\ r[1] = <<t.name>>
            /\ r[3] = <<t.album.name>>
            /\ SelectSeq(r[2], LAMBDA x : x /= ", ")
                 = [k \in DOMAIN t.artists |-> t.artists[k].name]
            /\ \A k \in DOMAIN r[2] : (r[2][k] = ", ") <=> (k % 2 = 0)

C9_Witness ==
  /\ TracksExtracted
  /\ Len(spotify_playlist) = 2
  /\ spotify_playlist[1] /= spotify_playlist[2]
  /\ Len(spotify_playlist[2][2]) = 3

\* C10: in a publish run the service calls are, in order, one login, one search
\* per extracted track in source order, one playlist creation and one batch
\* add; none is repeated.
C10_CallOrder ==
  LET n == Len(spotify_playlist)
  IN /\ Len(calls) <= n + 3
     /\ \A i \in DOMAIN calls :
          /\ i = 1 => calls[i].op = "login"
          /\ (1 < i /\ i <= n + 1) =>
               /\ calls[i].op = "search"
               /\ calls[i].arg = spotify_playlist[i - 1][1] \o <<" ">>
                                   \o spotify_playlist[i - 1][2]
          /\ i = n + 2 => calls[i].op = "create_playlist"
          /\ i = n + 3 => calls[i].op = "add_songs_to_playlist"

C10_Witness ==
  /\ pc = "done"
  /\ Len(spotify_playlist) = 2
  /\ spotify_playlist[1] /= spotify_playlist[2]
  /\ Len(calls) = 5

====
